---- MODULE Spec2Model ----
(***************************************************************************)
(* A model of src/UserGen.py: the username generator's pipeline            *)
(*   clean -> generate_variants -> add_suffixes -> add_l33t_speak          *)
(*         -> add_caps_variations -> union over names -> sorted output.    *)
(*                                                                         *)
(* A Python str is a sequence of one-character strings.  Python's None and *)
(* the empty str are both falsy wherever the program tests an option, so   *)
(* an absent --numbers/--years/--words is the empty sequence.              *)
(***************************************************************************)
EXTENDS Integers, Sequences, FiniteSets, TLC

VARIABLES
    args,           \* the argparse namespace and the input source
    pc,             \* the position of main / process_name
    names,          \* main's list of names
    idx,            \* how many names the for loop of main has taken
    parts,          \* process_name: cleaned.split()
    base,           \* process_name: what generate_variants returned
    usernames,      \* process_name: the working set
    all_usernames,  \* main: the union over the names
    output          \* the lines written to the output file or stdout

vars == <<args, pc, names, idx, parts, base, usernames, all_usernames, output>>

(***************************************************************************)
(* Characters                                                              *)
(***************************************************************************)
LowerSeq == <<"a","b","c","d","e","f","g","h","i","j","k","l","m",
              "n","o","p","q","r","s","t","u","v","w","x","y","z">>

UpperSeq == <<"A","B","C","D","E","F","G","H","I","J","K","L","M",
              "N","O","P","Q","R","S","T","U","V","W","X","Y","Z">>

DigitSeq == <<"0","1","2","3","4","5","6","7","8","9">>

Range(s) == {s[i] : i \in DOMAIN s}

IndexIn(c, s) == CHOOSE i \in DOMAIN s : s[i] = c

LowerChars == Range(LowerSeq)

UpperChars == Range(UpperSeq)

DigitChars == Range(DigitSeq)

\* The one precomposed accented letter of the model, and the combining mark
\* its compatibility decomposition holds.
EAcute == "e+acute"

CombiningAcute == "+acute"

\* str.isspace for the characters of the model.
IsSpace(c) == c \in {" ", "\t"}

\* unicodedata.combining(c) != 0
combining(c) == c = CombiningAcute

\* unicodedata.normalize('NFKD', c) of one character.
NFKD(c) == IF c = EAcute THEN <<"e", CombiningAcute>> ELSE <<c>>

\* str.lower / str.upper of one character.
lower(c) == IF c \in UpperChars THEN LowerSeq[IndexIn(c, UpperSeq)] ELSE c

upper(c) == IF c \in LowerChars THEN UpperSeq[IndexIn(c, LowerSeq)] ELSE c

\* Whether str.title / str.capitalize treats the character as cased.
IsCased(c) == c \in LowerChars \cup UpperChars

\* ord(c): the code point, which is what sorted() compares.
ord(c) ==
    IF c \in LowerChars THEN 96 + IndexIn(c, LowerSeq)
    ELSE IF c \in UpperChars THEN 64 + IndexIn(c, UpperSeq)
    ELSE IF c \in DigitChars THEN 47 + IndexIn(c, DigitSeq)
    ELSE CASE c = "\t" -> 9
           [] c = " " -> 32
           [] c = "!" -> 33
           [] c = "$" -> 36
           [] c = "'" -> 39
           [] c = "+" -> 43
           [] c = "," -> 44
           [] c = "-" -> 45
           [] c = "." -> 46
           [] c = "@" -> 64
           [] c = "_" -> 95
           [] c = EAcute -> 233
           [] c = CombiningAcute -> 769

(***************************************************************************)
(* Strings                                                                 *)
(***************************************************************************)
\* unicodedata.normalize('NFKD', s)
RECURSIVE normalize_NFKD(_)
normalize_NFKD(s) ==
    IF s = <<>> THEN <<>> ELSE NFKD(Head(s)) \o normalize_NFKD(Tail(s))

\* str.lower(), str.upper()
str_lower(s) == [i \in DOMAIN s |-> lower(s[i])]

str_upper(s) == [i \in DOMAIN s |-> upper(s[i])]

\* str.capitalize(): the first character uppercased, the rest LOWERCASED.
str_capitalize(s) ==
    [i \in DOMAIN s |-> IF i = 1 THEN upper(s[i]) ELSE lower(s[i])]

\* str.title(): a cased character is uppercased when the character before it
\* is not cased (a digit, a symbol, the start) and lowercased when it is.
str_title(s) ==
    [i \in DOMAIN s |->
        IF ~IsCased(s[i]) THEN s[i]
        ELSE IF i > 1 /\ IsCased(s[i - 1]) THEN lower(s[i])
        ELSE upper(s[i])]

\* str.strip()
RECURSIVE lstrip(_)
lstrip(s) ==
    IF s # <<>> /\ IsSpace(Head(s)) THEN lstrip(Tail(s)) ELSE s

RECURSIVE rstrip(_)
rstrip(s) ==
    IF s # <<>> /\ IsSpace(s[Len(s)]) THEN rstrip(SubSeq(s, 1, Len(s) - 1)) ELSE s

strip(s) == rstrip(lstrip(s))

\* str.split(): the maximal runs of non-whitespace, in order.
RECURSIVE SplitWs(_, _)
SplitWs(s, cur) ==
    IF s = <<>> THEN (IF cur = <<>> THEN <<>> ELSE <<cur>>)
    ELSE IF IsSpace(Head(s))
         THEN (IF cur = <<>> THEN <<>> ELSE <<cur>>) \o SplitWs(Tail(s), <<>>)
         ELSE SplitWs(Tail(s), Append(cur, Head(s)))

split(s) == SplitWs(s, <<>>)

\* str.split(sep) for a one-character sep: every piece, the empty ones too.
RECURSIVE SplitOn(_, _, _)
SplitOn(s, sep, cur) ==
    IF s = <<>> THEN <<cur>>
    ELSE IF Head(s) = sep
         THEN <<cur>> \o SplitOn(Tail(s), sep, <<>>)
         ELSE SplitOn(Tail(s), sep, Append(cur, Head(s)))

split_sep(s, sep) == SplitOn(s, sep, <<>>)

\* re.sub(r"\s+", ' ', s)
RECURSIVE CollapseWs(_, _)
CollapseWs(s, inRun) ==
    IF s = <<>> THEN <<>>
    ELSE IF IsSpace(Head(s))
         THEN (IF inRun THEN <<>> ELSE <<" ">>) \o CollapseWs(Tail(s), TRUE)
         ELSE <<Head(s)>> \o CollapseWs(Tail(s), FALSE)

\* A replace that forgets the count of 1: every occurrence is replaced.
replace_every(s, old, new) == [i \in DOMAIN s |-> IF s[i] = old THEN new ELSE s[i]]

\* str.replace(old, new, 1) for one-character old and new.
replace_first(s, old, new) ==
    IF old \notin Range(s) THEN s
    ELSE LET i == CHOOSE k \in DOMAIN s :
                      s[k] = old /\ \A j \in 1..(k - 1) : s[j] # old
         IN SubSeq(s, 1, i - 1) \o <<new>> \o SubSeq(s, i + 1, Len(s))

\* str(n) for an int n >= 0.
RECURSIVE str(_)
str(n) ==
    IF n < 10 THEN <<DigitSeq[n + 1]>>
    ELSE str(n \div 10) \o <<DigitSeq[(n % 10) + 1]>>

\* s[2:]
slice_from_2(s) == SubSeq(s, 3, Len(s))

\* int(s): whitespace is stripped, one sign is allowed, the rest must be one
\* or more digits; anything else raises ValueError.
RECURSIVE DigitsValue(_)
DigitsValue(s) ==
    IF s = <<>> THEN 0
    ELSE 10 * DigitsValue(SubSeq(s, 1, Len(s) - 1))
         + (IndexIn(s[Len(s)], DigitSeq) - 1)

int_ok(s) ==
    LET t == strip(s)
        d == IF t # <<>> /\ Head(t) \in {"+", "-"} THEN Tail(t) ELSE t
    IN d # <<>> /\ \A i \in DOMAIN d : d[i] \in DigitChars

int(s) ==
    LET t == strip(s)
        neg == t # <<>> /\ Head(t) = "-"
        d == IF t # <<>> /\ Head(t) \in {"+", "-"} THEN Tail(t) ELSE t
    IN IF neg THEN 0 - DigitsValue(d) ELSE DigitsValue(d)

\* a < b as sorted() orders two str: by code point, a proper prefix first.
RECURSIVE str_less(_, _)
str_less(a, b) ==
    IF b = <<>> THEN FALSE
    ELSE IF a = <<>> THEN TRUE
    ELSE IF ord(Head(a)) # ord(Head(b)) THEN ord(Head(a)) < ord(Head(b))
    ELSE str_less(Tail(a), Tail(b))

\* sorted(S) of a set of str: the element with k smaller ones is at k + 1.
sorted(S) ==
    LET ranked == {<<Cardinality({y \in S : str_less(y, x)}) + 1, x>> : x \in S}
    IN [k \in 1..Cardinality(S) |-> (CHOOSE p \in ranked : p[1] = k)[2]]

(***************************************************************************)
(* The functions of UserGen.py                                             *)
(***************************************************************************)
KeptByClean(c) == c \in LowerChars \cup DigitChars \cup {"'", "-"} \/ IsSpace(c)

NotCombining(c) == ~combining(c)

IsAlnum(c) == c \in LowerChars \cup DigitChars

\* clean(s)
clean(s) ==
    LET s1 == str_lower(strip(s))
        s2 == normalize_NFKD(s1)
        s3 == SelectSeq(s2, NotCombining)
        s4 == SelectSeq(s3, KeptByClean)
    IN CollapseWs(s4, FALSE)

\* re.sub(r"[^a-z0-9]", '', s)
alnum_only(s) == SelectSeq(s, IsAlnum)

\* Python's None as the value of the formats parameter.
NoneFormats == {"<None>"}

AllFormats == {"standard", "dotted", "underscored", "dashed", "initial", "reversed"}

\* A standard category that forgets the bare first name when a last is there.
standard_variants_no_bare(f, l, m) ==
    (IF l # <<>> THEN {f \o l, l \o f} ELSE {f})
    \cup (IF m # <<>> THEN {f \o m, f \o m \o l} ELSE {})

\* generate_variants, lines 55-62: the standard category.
standard_variants(f, l, m) ==
    {f}
    \cup (IF l # <<>> THEN {f \o l, l \o f} ELSE {})
    \cup (IF m # <<>> THEN {f \o m, f \o m \o l} ELSE {})

\* generate_variants, lines 65-72: the dotted category, for a present last.
dotted_variants(f, l, m) ==
    {f \o <<".">> \o l, l \o <<".">> \o f,
     <<f[1]>> \o <<".">> \o l, f \o <<".">> \o <<l[1]>>}
    \cup (IF m # <<>>
          THEN {f \o <<".">> \o m \o <<".">> \o l,
                <<f[1]>> \o <<".">> \o <<m[1]>> \o <<".">> \o l}
          ELSE {})

\* generate_variants, lines 75-81: the underscored category.
underscored_variants(f, l, m) ==
    {f \o <<"_">> \o l, l \o <<"_">> \o f,
     <<f[1]>> \o <<"_">> \o l, f \o <<"_">> \o <<l[1]>>}
    \cup (IF m # <<>> THEN {f \o <<"_">> \o m \o <<"_">> \o l} ELSE {})

\* generate_variants, lines 84-88: the dashed category.
dashed_variants(f, l, m) ==
    {f \o <<"-">> \o l, l \o <<"-">> \o f,
     <<f[1]>> \o <<"-">> \o l, f \o <<"-">> \o <<l[1]>>}

\* generate_variants, lines 91-98: the initial category.
initial_variants(f, l, m) ==
    {<<f[1]>> \o l, l \o <<f[1]>>, f \o <<l[1]>>, <<l[1]>> \o f}
    \cup (IF m # <<>>
          THEN {<<f[1]>> \o <<m[1]>> \o l, f \o <<m[1]>> \o <<l[1]>>}
          ELSE {})

\* generate_variants, lines 101-106: the reversed category.
reversed_variants(f, l, m) ==
    {l, l \o f, l \o <<".">> \o f, l \o <<"_">> \o f, l \o <<"-">> \o f}

\* generate_variants(first, last, middle, formats)
generate_variants(first, last, middle, formats) ==
    LET f == alnum_only(first)
        l == alnum_only(last)
        m == IF middle # <<>> THEN alnum_only(middle) ELSE <<>>
        fmts == IF formats = NoneFormats \/ "all" \in formats
                THEN AllFormats ELSE formats
    IN IF f = <<>> THEN {}
       ELSE (IF "standard" \in fmts THEN standard_variants(f, l, m) ELSE {})
            \cup (IF "dotted" \in fmts /\ l # <<>>
                  THEN dotted_variants(f, l, m) ELSE {})
            \cup (IF "underscored" \in fmts /\ l # <<>>
                  THEN underscored_variants(f, l, m) ELSE {})
            \cup (IF "dashed" \in fmts /\ l # <<>>
                  THEN dashed_variants(f, l, m) ELSE {})
            \cup (IF "initial" \in fmts /\ l # <<>>
                  THEN initial_variants(f, l, m) ELSE {})
            \cup (IF "reversed" \in fmts /\ l # <<>>
                  THEN reversed_variants(f, l, m) ELSE {})

\* The suffixes add_suffixes appends for one number, one year, one word.
NumberSuffixes(num) ==
    {str(num), <<".">> \o str(num), <<"_">> \o str(num), <<"-">> \o str(num)}

YearSuffixes(year) == {str(year), slice_from_2(str(year))}

WordSuffixes(word) ==
    {word, <<".">> \o word, <<"_">> \o word, <<"-">> \o word}

\* add_suffixes(usernames, numbers, years, common_words); each list may be
\* empty or None, which the code tests alike.
add_suffixes(users, numbers, years, common_words) ==
    users
    \cup {u \o x : u \in users,
                   x \in UNION {NumberSuffixes(numbers[i]) : i \in DOMAIN numbers}}
    \cup {u \o x : u \in users,
                   x \in UNION {YearSuffixes(years[i]) : i \in DOMAIN years}}
    \cup {u \o x : u \in users,
                   x \in UNION {WordSuffixes(common_words[i]) : i \in DOMAIN common_words}}

\* l33t_map, as (char, replacement) pairs.
l33t_map ==
    {<<"a", "4">>, <<"a", "@">>, <<"e", "3">>, <<"i", "1">>, <<"i", "!">>,
     <<"o", "0">>, <<"s", "5">>, <<"s", "$">>, <<"t", "7">>, <<"l", "1">>,
     <<"g", "9">>}

\* The strings add_l33t_speak makes of one username.
l33t_of(username) ==
    {replace_first(username, p[1], p[2]) :
        p \in {q \in l33t_map : q[1] \in Range(username)}}

\* add_l33t_speak(usernames)
add_l33t_speak(users) == UNION {l33t_of(u) : u \in users}

\* add_caps_variations(usernames, caps_type)
add_caps_variations(users, caps_type) ==
    CASE caps_type = "all" ->
            {str_upper(u) : u \in users}
            \cup {str_capitalize(u) : u \in users}
            \cup {str_title(u) : u \in users}
      [] caps_type = "first" -> {str_capitalize(u) : u \in users}
      [] caps_type = "upper" -> {str_upper(u) : u \in users}
      [] OTHER -> {}

\* The result of a parse: the list, or the ValueError int() or the unpacking
\* of start, end raised.
Parsed(list) == [ok |-> TRUE, value |-> list]

ValueError == [ok |-> FALSE, value |-> <<>>]

IntsOf(pieces) == [i \in DOMAIN pieces |-> int(pieces[i])]

\* parse_numbers(num_string)
parse_numbers(num_string) ==
    IF num_string = <<>> THEN Parsed(<<>>)
    ELSE IF "-" \in Range(num_string)
    THEN LET p == split_sep(num_string, "-")
         IN IF Len(p) # 2 \/ ~int_ok(p[1]) \/ ~int_ok(p[2]) THEN ValueError
            ELSE Parsed([i \in 1..(int(p[2]) + 1 - int(p[1])) |-> int(p[1]) + i - 1])
    ELSE IF "," \in Range(num_string)
    THEN LET p == split_sep(num_string, ",")
         IN IF \E i \in DOMAIN p : ~int_ok(p[i]) THEN ValueError
            ELSE Parsed(IntsOf(p))
    ELSE IF ~int_ok(num_string) THEN ValueError
    ELSE Parsed(<<int(num_string)>>)

\* parse_years(year_string)
parse_years(year_string) ==
    IF year_string = <<>> THEN Parsed(<<>>)
    ELSE IF "-" \in Range(year_string)
    THEN LET p == split_sep(year_string, "-")
         IN IF Len(p) # 2 \/ ~int_ok(p[1]) \/ ~int_ok(p[2]) THEN ValueError
            ELSE Parsed([i \in 1..(int(p[2]) + 1 - int(p[1])) |-> int(p[1]) + i - 1])
    ELSE IF "," \in Range(year_string)
    THEN LET p == split_sep(year_string, ",")
         IN IF \E i \in DOMAIN p : ~int_ok(p[i]) THEN ValueError
            ELSE Parsed(IntsOf(p))
    ELSE IF ~int_ok(year_string) THEN ValueError
    ELSE Parsed(<<int(year_string)>>)

\* process_name, lines 223-235: first, middle, last of the tokens.
first_of(p) == p[1]

middle_of(p) == IF Len(p) > 2 THEN p[2] ELSE <<>>

last_of(p) == IF Len(p) = 1 THEN <<>> ELSE p[Len(p)]

\* process_name, line 241: whether the suffix pass runs.
suffixes_requested(a) == a.numbers # <<>> \/ a.years # <<>> \/ a.words # <<>>

\* process_name, lines 241-245, once both specifications have parsed.
suffix_pass(users, a) ==
    IF suffixes_requested(a)
    THEN add_suffixes(users, parse_numbers(a.numbers).value,
                      parse_years(a.years).value,
                      IF a.words # <<>> THEN split_sep(a.words, ",") ELSE <<>>)
    ELSE users

\* A leet pass that assigns the variants instead of merging them in.
leet_pass_replacing(users, a) ==
    IF a.leet THEN add_l33t_speak(users) ELSE users

\* process_name, lines 248-249.
leet_pass(users, a) ==
    IF a.leet THEN users \cup add_l33t_speak(users) ELSE users

\* A capitalization pass that assigns the variants instead of merging them in.
caps_pass_replacing(users, a) ==
    IF a.caps # "none" THEN add_caps_variations(users, a.caps) ELSE users

\* process_name, lines 252-253.
caps_pass(users, a) ==
    IF a.caps # "none"
    THEN users \cup add_caps_variations(users, a.caps)
    ELSE users

\* A main that sorts only when asked to: without the flag the set is written
\* in an iteration order of its own, here the descending one.
sort_usernames_when_asked(all, sort_flag) ==
    IF sort_flag THEN sorted(all)
    ELSE [k \in 1..Cardinality(all) |-> sorted(all)[Cardinality(all) + 1 - k]]

\* main, lines 352-356: both branches of the sort flag sort.
sort_usernames(all, sort_flag) ==
    IF sort_flag THEN sorted(all) ELSE sorted(all)

\* main, lines 319-337: args.names as given; the lines of the input file or of
\* stdin stripped, the blank ones dropped.
collect_names(a) ==
    IF a.kind = "names" THEN a.lines
    ELSE LET stripped == [i \in DOMAIN a.lines |-> strip(a.lines[i])]
             NonBlank(x) == x # <<>>
         IN SelectSeq(stripped, NonBlank)

(***************************************************************************)
(* The inputs                                                              *)
(***************************************************************************)
MaxNames == 2

NameBobLee == <<"B","o","b"," ","L","e","e">>

NameAl == <<"a","l">>

NameBlank == <<" ">>

NameBobDoc == <<"b","o","b"," ","d","o","c">>

NameAnna == <<"a","n","n","a">>

NameJoDoe == <<"J","o"," ","D","o","e">>

NameAlBeaCy == <<"a","l"," ","b","e","a"," ","c","y">>

NameBo == <<"b","o">>

NameQuoteLee == <<"'"," ","l","e","e">>

NameJoMDash == <<"j","o"," ","m"," ","-">>

NameRene == <<"R","e","n",EAcute," ","O","'","N","e","i","l"," ","j","r","."," ","S","y">>

NoSpec == <<>>

\* The argparse defaults of every option but the names.
Defaults ==
    [kind |-> "names", lines |-> <<>>, format |-> {"all"}, numbers |-> NoSpec,
     years |-> NoSpec, words |-> NoSpec, leet |-> FALSE, caps |-> "none",
     sort |-> FALSE]

ListsOver(pool, lo, hi) == UNION {[1..n -> pool] : n \in lo..hi}

\* --format: one or more of the seven choices.
FormatSelections ==
    (SUBSET AllFormats \ {{}}) \cup {{"all"}, {"all", "dashed"}}

\* One name, every format selection, no expansion.
FormatInputs ==
    {[Defaults EXCEPT !.lines = <<n>>, !.format = f] :
        n \in {NameJoDoe, NameAlBeaCy, NameBo, NameQuoteLee, NameJoMDash, NameRene},
        f \in FormatSelections}

\* One name, every combination of the three expansion passes.
ExpanderInputs ==
    {[Defaults EXCEPT !.lines = <<n>>, !.format = f, !.numbers = nu,
                      !.years = y, !.words = w, !.leet = l, !.caps = c] :
        n \in {NameBobDoc, NameAnna},
        f \in {{"standard"}},
        nu \in {NoSpec, <<"7">>},
        y \in {NoSpec, <<"9","9","9","-","1","0","0","0">>},
        w \in {NoSpec, <<"A","d">>},
        l \in BOOLEAN,
        c \in {"none", "first", "upper", "all"}}

\* Up to MaxNames names from -n or from an input file, well-formed and
\* malformed suffix specifications, both values of --sort.
AggregatorInputs ==
    {[Defaults EXCEPT !.kind = k, !.lines = ls, !.numbers = nu, !.years = y,
                      !.sort = s] :
        k \in {"names", "input"},
        ls \in ListsOver({NameBobLee, NameAl, NameBlank}, 0, MaxNames),
        nu \in {NoSpec, <<"0","-","1">>, <<"1",",","x">>},
        y \in {NoSpec, <<"2","0","x","4">>},
        s \in BOOLEAN}

\* nargs='+': -n takes at least one name.
Inputs ==
    {a \in FormatInputs \cup ExpanderInputs \cup AggregatorInputs :
        a.kind = "names" => a.lines # <<>>}

(***************************************************************************)
(* The program                                                             *)
(***************************************************************************)
Init ==
    /\ args \in Inputs
    /\ pc = "start"
    /\ names = <<>>
    /\ idx = 0
    /\ parts = <<>>
    /\ base = {}
    /\ usernames = {}
    /\ all_usernames = {}
    /\ output = <<>>

\* main, lines 317-341: collect the names; none is the input error.
CollectNames ==
    /\ pc = "start"
    /\ names' = collect_names(args)
    /\ pc' = IF names' = <<>> THEN "input_error" ELSE "loop"
    /\ UNCHANGED <<args, idx, parts, base, usernames, all_usernames, output>>

\* main, line 348, and process_name, lines 217-221: the next name is cleaned
\* and split; no token returns the empty set.
NextName ==
    /\ pc = "loop"
    /\ idx < Len(names)
    /\ idx' = idx + 1
    /\ parts' = split(clean(names[idx + 1]))
    /\ base' = {}
    /\ usernames' = {}
    /\ pc' = IF parts' = <<>> THEN "update" ELSE "generate"
    /\ UNCHANGED <<args, names, all_usernames, output>>

\* process_name, lines 223-238.
Generate ==
    /\ pc = "generate"
    /\ base' = generate_variants(first_of(parts), last_of(parts),
                                 middle_of(parts), args.format)
    /\ usernames' = base'
    /\ pc' = "suffix"
    /\ UNCHANGED <<args, names, idx, parts, all_usernames, output>>

\* process_name, lines 240-245: the specifications are parsed here, and a
\* ValueError of int() leaves the program through every frame.
Suffix ==
    /\ pc = "suffix"
    /\ IF suffixes_requested(args)
          /\ (~parse_numbers(args.numbers).ok \/ ~parse_years(args.years).ok)
       THEN pc' = "config_error" /\ UNCHANGED usernames
       ELSE pc' = "leet" /\ usernames' = suffix_pass(usernames, args)
    /\ UNCHANGED <<args, names, idx, parts, base, all_usernames, output>>

\* process_name, lines 247-249.
Leet ==
    /\ pc = "leet"
    /\ usernames' = leet_pass(usernames, args)
    /\ pc' = "caps"
    /\ UNCHANGED <<args, names, idx, parts, base, all_usernames, output>>

\* process_name, lines 251-255.
Caps ==
    /\ pc = "caps"
    /\ usernames' = caps_pass(usernames, args)
    /\ pc' = "update"
    /\ UNCHANGED <<args, names, idx, parts, base, all_usernames, output>>

\* main, line 350.
Update ==
    /\ pc = "update"
    /\ all_usernames' = all_usernames \cup usernames
    /\ pc' = "loop"
    /\ UNCHANGED <<args, names, idx, parts, base, usernames, output>>

\* main, lines 352-375: sort, then one username a line.
SortAndWrite ==
    /\ pc = "loop"
    /\ idx = Len(names)
    /\ output' = sort_usernames(all_usernames, args.sort)
    /\ pc' = "done"
    /\ UNCHANGED <<args, names, idx, parts, base, usernames, all_usernames>>

Next ==
    \/ CollectNames
    \/ NextName
    \/ Generate
    \/ Suffix
    \/ Leet
    \/ Caps
    \/ Update
    \/ SortAndWrite

Spec == Init /\ [][Next]_vars

(***************************************************************************)
(* The claims                                                              *)
(***************************************************************************)
\* The cleaned first, last and middle generate_variants works with.
CleanFirst == alnum_only(first_of(parts))

CleanLast == alnum_only(last_of(parts))

CleanMiddle == alnum_only(middle_of(parts))

\* generate_variants has returned for the current name.
Generated == pc = "suffix"

\* The resolution rule: the wildcard enables every category.
CategoryEnabled(cat) == "all" \in args.format \/ cat \in args.format

TwoPartForms(f, l, sep) ==
    {f \o <<sep>> \o l, l \o <<sep>> \o f,
     <<f[1]>> \o <<sep>> \o l, f \o <<sep>> \o <<l[1]>>}

MiddleForms(f, l, m, sep) ==
    {f \o <<sep>> \o m \o <<sep>> \o l,
     <<f[1]>> \o <<sep>> \o <<m[1]>> \o <<sep>> \o l}

\* C1: with first, last and middle present, an enabled dotted or underscored
\* category puts the four two-part forms and both middle combinations of its
\* separator in the result; with only dashed enabled the result holds the four
\* two-part '-' forms and neither middle combination.
C1_SeparatorForms ==
    (Generated /\ CleanFirst # <<>> /\ CleanLast # <<>> /\ CleanMiddle # <<>>) =>
        /\ CategoryEnabled("dotted") =>
              TwoPartForms(CleanFirst, CleanLast, ".")
              \cup MiddleForms(CleanFirst, CleanLast, CleanMiddle, ".") \subseteq base
        /\ CategoryEnabled("underscored") =>
              TwoPartForms(CleanFirst, CleanLast, "_")
              \cup MiddleForms(CleanFirst, CleanLast, CleanMiddle, "_") \subseteq base
        /\ args.format = {"dashed"} =>
              /\ TwoPartForms(CleanFirst, CleanLast, "-") \subseteq base
              /\ MiddleForms(CleanFirst, CleanLast, CleanMiddle, "-") \cap base = {}

\* C2, as claimed: whatever the format selection, a non-empty cleaned first
\* name gives a non-empty result that holds the bare first name, and the result
\* is empty only when the cleaned first name is empty.
C2_AlwaysHasFirst ==
    Generated =>
        /\ CleanFirst # <<>> => (base # {} /\ CleanFirst \in base)
        /\ base = {} => CleanFirst = <<>>

\* C2, amended: the bare first name is a member of the standard category alone.
\* With a non-empty cleaned first name and standard enabled (by name or by the
\* wildcard) the result is non-empty and holds it; the result is empty exactly
\* when the cleaned first name is empty, or standard is disabled and the
\* cleaned last name is empty.
C2_StandardHasFirst ==
    Generated =>
        /\ (CleanFirst # <<>> /\ CategoryEnabled("standard")) =>
              (base # {} /\ CleanFirst \in base)
        /\ base = {} <=>
              \/ CleanFirst = <<>>
              \/ ~CategoryEnabled("standard") /\ CleanLast = <<>>

C2_Witness ==
    /\ Generated
    /\ CleanFirst # <<>>
    /\ CleanLast # <<>>
    /\ "all" \notin args.format
    /\ "standard" \in args.format
    /\ "dotted" \in args.format
    /\ CleanFirst \in base

\* process_name is about to return the set of a name that has tokens.
Returning == pc = "update" /\ parts # <<>>

SuffixAdditions(users) ==
    add_suffixes(users, parse_numbers(args.numbers).value,
                 parse_years(args.years).value,
                 IF args.words # <<>> THEN split_sep(args.words, ",") ELSE <<>>)
    \ users

\* C3: process_name returns base \cup suffix(base) \cup leet(base \cup
\* suffix(base)) \cup caps(base \cup suffix(base) \cup leet(...)), a disabled
\* pass adding nothing, and every member of the base set is in the result.
C3_AccumulationOrder ==
    Returning =>
        LET s1 == IF suffixes_requested(args)
                  THEN base \cup SuffixAdditions(base) ELSE base
            s2 == IF args.leet THEN s1 \cup add_l33t_speak(s1) ELSE s1
            s3 == IF args.caps # "none"
                  THEN s2 \cup add_caps_variations(s2, args.caps) ELSE s2
        IN usernames = s3 /\ base \subseteq usernames

C3_Witness ==
    /\ Returning
    /\ args.numbers # <<>>
    /\ args.leet
    /\ args.caps = "upper"
    /\ <<"B","0","B","7">> \in usernames
    /\ <<"b","o","b">> \in base

\* What process_name returns for one raw name, as one expression.
UsernamesOf(name) ==
    LET p == split(clean(name))
    IN IF p = <<>> THEN {}
       ELSE caps_pass(leet_pass(suffix_pass(
                generate_variants(first_of(p), last_of(p), middle_of(p),
                                  args.format), args), args), args)

\* C4: whatever the sort flag, the output is strictly increasing in code-point
\* order and its elements are the union of the per-name sets; that union is
\* taken over the set of the names, so every permutation of the names gives
\* this same sequence.
C4_SortedUnion ==
    pc = "done" =>
        /\ \A i \in 1..(Len(output) - 1) : str_less(output[i], output[i + 1])
        /\ Range(output) = UNION {UsernamesOf(n) : n \in Range(names)}

C4_Witness ==
    /\ pc = "done"
    /\ ~args.sort
    /\ Len(names) >= 2
    /\ names[1] # names[2]
    /\ UsernamesOf(names[1]) # {}
    /\ UsernamesOf(names[2]) # {}
    /\ Len(output) = Cardinality(UsernamesOf(names[1]) \cup UsernamesOf(names[2]))

\* No supplied name has a usable token.
NoUsableName == \A i \in DOMAIN args.lines : split(clean(args.lines[i])) = <<>>

\* C5: when every supplied name normalizes to zero tokens the pipeline ends in
\* the input error and writes nothing; it never completes with empty output.
C5_NoUsableNameIsInputError ==
    NoUsableName => (pc \notin {"done", "config_error"} /\ output = <<>>)

\* The numbers or the years specification holds a non-integer token.
Malformed == ~parse_numbers(args.numbers).ok \/ ~parse_years(args.years).ok

\* C6: with a malformed numbers or years specification the run ends in the
\* configuration error, raised before any name is normalized or any variant
\* generated, and no username is written.  (An empty name list may still end
\* in the input error.)
C6_ConfigErrorBeforeGeneration ==
    Malformed =>
        /\ idx = 0
        /\ base = {}
        /\ output = <<>>
        /\ pc # "done"

Separators == {".", "_", "-", " ", "\t"}

\* The first character uppercased, every other character unchanged.
FirstUppercased(u) == [i \in DOMAIN u |-> IF i = 1 THEN upper(u[i]) ELSE u[i]]

\* The first character of every segment between separators uppercased, every
\* other character unchanged.
SegmentTitled(u) ==
    [i \in DOMAIN u |->
        IF i = 1 \/ u[i - 1] \in Separators THEN upper(u[i]) ELSE u[i]]

ClaimedCaps(users, mode) ==
    IF mode = "first" THEN {FirstUppercased(u) : u \in users}
    ELSE {str_upper(u) : u \in users}
         \cup {FirstUppercased(u) : u \in users}
         \cup {SegmentTitled(u) : u \in users}

\* C7: the capitalization pass in mode 'first' adds each username with only its
\* first character uppercased, and in mode 'all' adds exactly the uppercased
\* form, that first-character form and the form titled on '.', '_', '-' and
\* whitespace only, the other characters left as they are.
C7_CapsForms ==
    [][(pc = "caps" /\ args.caps \in {"first", "all"}) =>
          usernames' = usernames \cup ClaimedCaps(usernames, args.caps)]_vars

\* The final two characters of a string, the whole of a shorter one.
LastTwo(t) == IF Len(t) <= 2 THEN t ELSE SubSeq(t, Len(t) - 1, Len(t))

ClaimedYearAdditions(users) ==
    LET years == parse_years(args.years).value
    IN {u \o x : u \in users,
                 x \in UNION {{str(years[i]), LastTwo(str(years[i]))} :
                                 i \in DOMAIN years}}

\* C8: for every username u and configured year y the suffix pass adds
\* u+str(y) and u followed by the final two characters of str(y), and no other
\* year-derived string.
C8_YearSuffixes ==
    [][(pc = "suffix" /\ args.years # <<>> /\ ~Malformed) =>
          usernames' = add_suffixes(usernames, parse_numbers(args.numbers).value,
                           <<>>,
                           IF args.words # <<>>
                           THEN split_sep(args.words, ",") ELSE <<>>)
                       \cup ClaimedYearAdditions(usernames)]_vars

\* The positions where a letter of the substitution table first occurs in u.
FirstTablePositions(u) ==
    {i \in DOMAIN u :
        /\ \E q \in l33t_map : q[1] = u[i]
        /\ \A j \in 1..(i - 1) : u[j] # u[i]}

\* The positions where two strings of one length differ.
Differences(u, v) == {i \in DOMAIN u : u[i] # v[i]}

\* The (letter, replacement) pairs of the table whose letter is in u.
PairsPresent(u) == {q \in l33t_map : q[1] \in Range(u)}

\* u with the first occurrence of one table letter replaced by one of that
\* letter's replacements, for every such letter and replacement.
ClaimedLeet(u) ==
    UNION {{[u EXCEPT ![i] = q[2]] : q \in {r \in l33t_map : r[1] = u[i]}} :
              i \in FirstTablePositions(u)}

\* C9: every string the leet pass makes of a username u has the length of u and
\* differs from it at exactly one position, the first occurrence of a table
\* letter, which holds one of that letter's replacements; there is one string
\* for each (letter in u, replacement) pair, and none without a table letter;
\* the pass merges exactly these strings into the working set.
C9_LeetSingleSubstitution ==
    [][(pc = "leet" /\ args.leet) =>
          /\ \A u \in usernames :
                /\ \A v \in l33t_of(u) :
                      /\ Len(v) = Len(u)
                      /\ \E i \in FirstTablePositions(u) :
                            /\ Differences(u, v) = {i}
                            /\ <<u[i], v[i]>> \in l33t_map
                /\ Cardinality(l33t_of(u)) = Cardinality(PairsPresent(u))
          /\ usernames' = usernames \cup UNION {ClaimedLeet(u) : u \in usernames}]_vars

C9_Witness ==
    /\ pc = "caps"
    /\ args.leet
    /\ <<"4","n","n","a">> \in usernames
    /\ <<"@","n","n","a">> \in usernames
    /\ <<"4","n","n","4">> \notin usernames

PassNames == {"suffix", "leet", "caps"}

Orders == {o \in [1..3 -> PassNames] : Range(o) = PassNames}

ApplyPass(pass, users) ==
    CASE pass = "suffix" -> suffix_pass(users, args)
      [] pass = "leet" -> leet_pass(users, args)
      [] pass = "caps" -> caps_pass(users, args)

\* The passes accumulated onto the base set in the order o.
ApplyInOrder(o) == ApplyPass(o[3], ApplyPass(o[2], ApplyPass(o[1], base)))

PassesEnabled ==
    (IF suffixes_requested(args) THEN {"suffix"} ELSE {})
    \cup (IF args.leet THEN {"leet"} ELSE {})
    \cup (IF args.caps # "none" THEN {"caps"} ELSE {})

\* C10, as claimed: accumulating the enabled passes in any order gives the set
\* that the order suffix, leet, capitalization of process_name gives.
C10_PassesCommute ==
    Returning => \A o \in Orders : ApplyInOrder(o) = usernames

\* C10, amended: the passes do not commute.  Accumulated in any order they
\* keep the base set and hold what each enabled pass makes of the base set
\* alone, and so does the set process_name returns; with at most one pass
\* enabled every order gives the set process_name returns.
C10_OrdersShareTheBasePasses ==
    Returning =>
        LET common == base \cup ApplyPass("suffix", base)
                      \cup ApplyPass("leet", base) \cup ApplyPass("caps", base)
        IN /\ common \subseteq usernames
           /\ \A o \in Orders :
                 /\ common \subseteq ApplyInOrder(o)
                 /\ Cardinality(PassesEnabled) <= 1 => ApplyInOrder(o) = usernames

C10_Witness ==
    /\ Returning
    /\ args.leet
    /\ args.caps = "upper"
    /\ ~suffixes_requested(args)
    /\ <<"B","0","B">> \in usernames
    /\ <<"B","0","B">> \notin ApplyInOrder(<<"caps", "leet", "suffix">>)

====
